---- MODULE Spec2Model ----
(***************************************************************************)
(* Model of beautiful_gradient_mcp/main.py: the Stytch token verifier,     *)
(* the MCP tool dispatcher with its two tool handlers, and the             *)
(* POST /api/save-profile endpoint working on the Profile Store.           *)
(*                                                                         *)
(* Strings are sequences of symbols (the symbol " " is whitespace), so     *)
(* that str.split() and ', '.join() are computed.  A JSON value is a       *)
(* record [t, s, n]: its type tag, its string content and its number.      *)
(* Optional values (Python None or a value) are sequences of length <= 1.  *)
(***************************************************************************)
EXTENDS Integers, Sequences, FiniteSets, TLC

\* ------------------------------------------------------------------ bounds
NumSave == 2        \* concurrent save-profile requests in flight
MaxRows == 3        \* rows the Profile table may hold
MaxIndex == 26      \* largest gradientIndex argument tried

\* ------------------------------------------------------- values and strings
None == <<>>
Some(x) == <<x>>

JNull == [t |-> "null", s |-> <<>>, n |-> 0]
JStr(str) == [t |-> "str", s |-> str, n |-> 0]
JInt(i) == [t |-> "int", s |-> <<>>, n |-> i]
JList == [t |-> "list", s |-> <<>>, n |-> 0]

\* Python truthiness of a JSON value (an empty list stands for JList)
Truthy(v) ==
    CASE v.t = "null" -> FALSE
      [] v.t = "str" -> v.s # <<>>
      [] v.t = "int" -> v.n # 0
      [] OTHER -> FALSE

U1 == <<"u1">>
U2 == <<"u2">>

\* str.split(): the maximal runs of non-whitespace symbols, in order
RECURSIVE split_from(_, _, _)
split_from(str, cur, acc) ==
    IF str = <<>>
    THEN IF cur = <<>> THEN acc ELSE Append(acc, cur)
    ELSE IF Head(str) = " "
         THEN split_from(Tail(str), <<>>, IF cur = <<>> THEN acc ELSE Append(acc, cur))
         ELSE split_from(Tail(str), Append(cur, Head(str)), acc)

split(str) == split_from(str, <<>>, <<>>)

\* dict.get(key, default)
dict_get(d, key, default) == IF key \in DOMAIN d THEN d[key] ELSE default

\* --------------------------------------------------------- token verifier
Tokens == {"tokA"}

ClaimKeys == {"sub", "azp", "client_id", "scope"}

ClaimValues(k) ==
    CASE k = "sub" -> {JStr(<<>>), JStr(U1), JStr(U2), JInt(7), JNull}
      [] k = "azp" -> {JStr(<<"appA">>), JInt(5)}
      [] k = "client_id" -> {JStr(<<"appB">>)}
      [] k = "scope" -> {JStr(<<>>), JStr(<<"openid", " ", "profile">>), JList}

\* every claim set verify_jwt_token may hand back as a mapping
ClaimSets == UNION {[K -> UNION {ClaimValues(k) : k \in K}] : K \in SUBSET ClaimKeys}

WellTyped(c) == \A k \in DOMAIN c : c[k] \in ClaimValues(k)

JwtErrors == {"InvalidSignature", "Expired", "MalformedToken"}

\* outcomes of `await verify_jwt_token(token)`: it raises, returns something
\* that is not a mapping, or returns a mapping of claims
JwtOutcomes ==
    {[kind |-> "raise", exc |-> e, claims |-> <<>>] : e \in JwtErrors}
    \cup {[kind |-> "notdict", exc |-> "", claims |-> <<>>]}
    \cup {[kind |-> "claims", exc |-> "", claims |-> c] : c \in {c \in ClaimSets : WellTyped(c)}}

\* what verify_token does: it raises exc or returns value (None or a
\* principal), and may write one line to the error log
Verified(exc, value, logged) == [exc |-> exc, value |-> value, logged |-> logged]
Raise(e) == Verified(e, None, <<>>)
Return(v) == Verified("", v, <<>>)

\* pydantic validation of StytchAccessToken(...): str fields reject non-str
StytchAccessToken(token, client_id, subject, scopes, claims) ==
    IF client_id.t # "str" \/ subject.t # "str"
    THEN Raise("ValidationError")
    ELSE Return(Some([token |-> token, client_id |-> client_id.s,
                      subject |-> subject.s, scopes |-> scopes,
                      claims |-> claims]))

verify_token_try_no_sub_check(token, out) ==
    IF out.kind = "raise" THEN Raise(out.exc)
    ELSE IF out.kind = "notdict" THEN Raise("AttributeError")
    ELSE LET jwt_claims == out.claims
             subject == dict_get(jwt_claims, "sub", JNull)
             client_id == dict_get(jwt_claims, "azp",
                                   dict_get(jwt_claims, "client_id", JStr(<<>>)))
         IN  IF "scope" \in DOMAIN jwt_claims /\ jwt_claims["scope"].t # "str"
             THEN Raise("AttributeError")
             ELSE StytchAccessToken(token, client_id, subject,
                      IF "scope" \in DOMAIN jwt_claims
                      THEN split(jwt_claims["scope"].s) ELSE <<>>,
                      jwt_claims)

\* the try block of StytchVerifier.verify_token
verify_token_try(token, out) ==
    IF out.kind = "raise" THEN Raise(out.exc)
    ELSE IF out.kind = "notdict" THEN Raise("AttributeError")
    ELSE LET jwt_claims == out.claims
             subject == dict_get(jwt_claims, "sub", JNull)
             client_id == dict_get(jwt_claims, "azp",
                                   dict_get(jwt_claims, "client_id", JStr(<<>>)))
         IN  IF ~Truthy(subject) THEN Verified("", None, <<"No 'sub' claim in JWT">>)
             ELSE IF "scope" \in DOMAIN jwt_claims /\ jwt_claims["scope"].t # "str"
             THEN Raise("AttributeError")
             ELSE StytchAccessToken(token, client_id, subject,
                      IF "scope" \in DOMAIN jwt_claims
                      THEN split(jwt_claims["scope"].s) ELSE <<>>,
                      jwt_claims)

verify_token_narrow_except(token, out) ==
    LET r == verify_token_try(token, out)
    IN  IF r.exc \in JwtErrors
        THEN Verified("", None, <<"JWT verification failed: ", r.exc>>)
        ELSE r

\* StytchVerifier.verify_token: `except Exception` logs the error and turns
\* every raise into None
verify_token(token, out) ==
    LET r == verify_token_try(token, out)
    IN  IF r.exc # ""
        THEN Verified("", None, <<"JWT verification failed: ", r.exc>>)
        ELSE r

\* ----------------------------------------------------------- Profile Store
\* user data the session exchange may return: a user id and the identities
\* linked to the user
Provider(type, handle, name, avatar) ==
    [provider_type |-> type, handle |-> handle, name |-> name, avatar |-> avatar]

UdAlice ==
    [user_id |-> U1, providers |-> <<Provider("Twitter", JStr(<<"alice">>),
                                      JStr(<<"Alice">>), JStr(<<"a.png">>))>>]
UdBlank ==
    [user_id |-> U1, providers |-> <<Provider("Google", JStr(<<"al">>), JNull, JNull),
                                     Provider("Twitter", JStr(<<>>), JNull, JNull)>>]
UdBob ==
    [user_id |-> U2, providers |-> <<Provider("Twitter", JStr(<<"bob">>),
                                      JStr(<<"Bob">>), JNull)>>]
UdGoogle ==
    [user_id |-> U2, providers |-> <<Provider("Google", JStr(<<"bo">>), JNull, JNull)>>]
UserDatas == {UdAlice, UdBlank, UdBob, UdGoogle}

\* auth.extract_twitter_profile: the first linked Twitter identity, or None
extract_twitter_profile(user_data) ==
    LET tw == {i \in 1..Len(user_data.providers) :
                  user_data.providers[i].provider_type = "Twitter"}
    IN  IF tw = {} THEN None
        ELSE LET p == user_data.providers[CHOOSE i \in tw : \A j \in tw : i <= j]
             IN  Some([user_id |-> user_data.user_id, twitter_handle |-> p.handle,
                       display_name |-> p.name, avatar_url |-> p.avatar])

RowsOf(rows, user_id) == {i \in 1..Len(rows) : rows[i].user_id = user_id}

\* database.get_profile_by_user_id: the first row of that user, or None
get_profile_by_user_id(rows, user_id) ==
    IF RowsOf(rows, user_id) = {} THEN None
    ELSE Some(rows[CHOOSE i \in RowsOf(rows, user_id) :
                       \A j \in RowsOf(rows, user_id) : i <= j])

\* a Profile row; its createdAt and updatedAt timestamps are left out
NewRow(rows, tp) ==
    [id |-> Len(rows) + 1, user_id |-> tp.user_id,
     twitter_handle |-> tp.twitter_handle, display_name |-> tp.display_name,
     avatar_url |-> tp.avatar_url]

\* database.get_or_create_profile: update the user's row in place, or insert
\* a new one
get_or_create_profile(rows, tp) ==
    IF RowsOf(rows, tp.user_id) = {}
    THEN Append(rows, NewRow(rows, tp))
    ELSE LET i == CHOOSE i \in RowsOf(rows, tp.user_id) :
                      \A j \in RowsOf(rows, tp.user_id) : i <= j
         IN  [rows EXCEPT ![i] = [@ EXCEPT !.twitter_handle = tp.twitter_handle,
                                           !.display_name = tp.display_name,
                                           !.avatar_url = tp.avatar_url]]

\* what a database call may do: work, or fail at one of its steps
\* stores that earlier save-profile requests can have left behind
StoreAfter(uds) ==
    LET F[i \in 0..Len(uds)] ==
            IF i = 0 THEN <<>>
            ELSE get_or_create_profile(F[i - 1], extract_twitter_profile(uds[i])[1])
    IN  F[Len(uds)]

DbOutcomes == {"ok", "get_db_raises", "query_raises", "query_none", "close_raises"}

\* ------------------------------------------------------------- tool calls
PaletteSize == 25

\* gradients.GRADIENTS: PaletteSize presets, each with its own name
GRADIENTS == [i \in 1..PaletteSize |-> [name |-> <<"gradient-", ToString(i - 1)>>]]

DefaultHandle == <<"twitter_user">>
DefaultName == <<"Twitter User">>
DefaultAvatar ==
    <<"https://abs.twimg.com/sticky/default_profile_images/default_profile_400x400.png">>

DefaultIdentity ==
    [handle |-> DefaultHandle, name |-> DefaultName, avatar |-> DefaultAvatar]

\* Python `x or default` on a nullable string column
OrDefault(v, default) == IF Truthy(v) THEN v.s ELSE default

ToolNames == {<<"get-my-profile">>, <<"create-gradient-tweet">>, <<"no-such-tool">>}

\* gradientIndex values: integers around and inside the palette, a string
\* and null (JSON floats and booleans are not tried)
IndexValues ==
    {JInt(i) : i \in (-1)..MaxIndex} \cup {JInt(999), JStr(<<"3">>), JNull}

TweetValues == {JStr(<<"hi">>)}

ArgumentDicts ==
    {[k \in {} |-> JNull]}
    \cup {[k \in {"tweetContent"} |-> v] : v \in TweetValues}
    \cup {[k \in {"gradientIndex"} |-> v] : v \in IndexValues}
    \cup {[k \in {"tweetContent", "gradientIndex"} |->
              IF k = "tweetContent" THEN tv ELSE iv] :
            tv \in TweetValues, iv \in IndexValues}

\* request.params.arguments: absent (None) or a JSON object
Arguments == {None} \cup {Some(d) : d \in ArgumentDicts}

CallToolResult(isError, content, structuredContent) ==
    [isError |-> isError, content |-> content,
     structuredContent |-> structuredContent]

\* what a handler did: raised exc or returned value; what the database did
\* for it ("" when it made no database call), the connections get_db() gave
\* it (opened) and the db.close() calls it made on them (closed)
Outcome(exc, value, db, opened, closed) ==
    [exc |-> exc, value |-> value, db |-> db, opened |-> opened, closed |-> closed]

\* ', '.join(scopes)
RECURSIVE join(_)
join(strs) ==
    IF strs = <<>> THEN <<>>
    ELSE IF Len(strs) = 1 THEN strs[1]
    ELSE strs[1] \o <<", ">> \o join(Tail(strs))

AuthRequiredText == <<"Authentication required. Please connect your account first.">>

ProfileText(subject, client_id, scopes, jwt_claims) ==
    <<"Profile Information:", "- User ID: ">> \o subject
    \o <<"- Client ID: ">> \o client_id
    \o <<"- Scopes: ">> \o (IF scopes # <<>> THEN join(scopes) ELSE <<"none">>)
    \o <<"- JWT Claims: ", ToString(Cardinality(DOMAIN jwt_claims)), " claims present">>

handle_get_my_profile_no_flag(access_token) ==
    IF access_token = None
    THEN Outcome("", Some(CallToolResult(FALSE, <<AuthRequiredText>>, None)), "", 0, 0)
    ELSE LET tok == access_token[1]
             profile_data == [user_id |-> tok.subject, client_id |-> tok.client_id,
                              scopes |-> tok.scopes, jwt_claims |-> tok.claims]
         IN  Outcome("", Some(CallToolResult(FALSE,
                 <<ProfileText(tok.subject, tok.client_id, tok.scopes, tok.claims)>>,
                 Some(profile_data))), "", 0, 0)

handle_get_my_profile_counts_scopes(access_token) ==
    IF access_token = None
    THEN Outcome("", Some(CallToolResult(TRUE, <<AuthRequiredText>>, None)), "", 0, 0)
    ELSE LET tok == access_token[1]
             profile_data == [user_id |-> tok.subject, client_id |-> tok.client_id,
                              scopes |-> tok.scopes, jwt_claims |-> tok.claims]
         IN  Outcome("", Some(CallToolResult(FALSE,
                 <<ProfileText(tok.subject, tok.client_id, tok.scopes,
                               [i \in DOMAIN tok.scopes |-> JNull])>>,
                 Some(profile_data))), "", 0, 0)

\* handle_get_my_profile; access_token is what get_access_token() returns.
\* Nothing in its try block raises on a StytchAccessToken, so the except
\* branch has no case here.
handle_get_my_profile(access_token) ==
    IF access_token = None
    THEN Outcome("", Some(CallToolResult(TRUE, <<AuthRequiredText>>, None)), "", 0, 0)
    ELSE LET tok == access_token[1]
             profile_data == [user_id |-> tok.subject, client_id |-> tok.client_id,
                              scopes |-> tok.scopes, jwt_claims |-> tok.claims]
         IN  Outcome("", Some(CallToolResult(FALSE,
                 <<ProfileText(tok.subject, tok.client_id, tok.scopes, tok.claims)>>,
                 Some(profile_data))), "", 0, 0)
\* Python seq[i]: negative i counts from the end; None stands for IndexError
py_index(seq, i) ==
    IF 0 <= i /\ i < Len(seq) THEN Some(seq[i + 1])
    ELSE IF i < 0 /\ -i <= Len(seq) THEN Some(seq[Len(seq) + i + 1])
    ELSE None

clamp_index_upper_only(n) == IF n < Len(GRADIENTS) THEN n ELSE 0

\* `if not 0 <= gradient_index < len(GRADIENTS): gradient_index = 0`
clamp_index(n) == IF 0 <= n /\ n < Len(GRADIENTS) THEN n ELSE 0

LookupOutcomes == DbOutcomes \ {"query_none"}

lookup_try_by_client_id(access_token, rows, db) ==
    IF access_token = None \/ access_token[1].subject = <<>>
    THEN [exc |-> "", profile |-> None, db |-> "", opened |-> 0, closed |-> 0]
    ELSE CASE db = "get_db_raises" ->
                [exc |-> "OperationalError", profile |-> None, db |-> db,
                 opened |-> 0, closed |-> 0]
           [] db = "query_raises" ->
                [exc |-> "OperationalError", profile |-> None, db |-> db,
                 opened |-> 1, closed |-> 1]
           [] db = "close_raises" ->
                [exc |-> "OperationalError", profile |-> None, db |-> db,
                 opened |-> 1, closed |-> 1]
           [] OTHER ->
                [exc |-> "", db |-> db, opened |-> 1, closed |-> 1,
                 profile |-> get_profile_by_user_id(rows, access_token[1].client_id)]

lookup_try_close_after_query(access_token, rows, db) ==
    IF access_token = None \/ access_token[1].subject = <<>>
    THEN [exc |-> "", profile |-> None, db |-> "", opened |-> 0, closed |-> 0]
    ELSE CASE db = "get_db_raises" ->
                [exc |-> "OperationalError", profile |-> None, db |-> db,
                 opened |-> 0, closed |-> 0]
           [] db = "query_raises" ->
                [exc |-> "OperationalError", profile |-> None, db |-> db,
                 opened |-> 1, closed |-> 0]
           [] db = "close_raises" ->
                [exc |-> "OperationalError", profile |-> None, db |-> db,
                 opened |-> 1, closed |-> 1]
           [] OTHER ->
                [exc |-> "", db |-> db, opened |-> 1, closed |-> 1,
                 profile |-> get_profile_by_user_id(rows, access_token[1].subject)]

\* the try body of the profile lookup in handle_create_gradient_tweet:
\* get_access_token, get_db, get_profile_by_user_id, finally db.close
lookup_try(access_token, rows, db) ==
    IF access_token = None \/ access_token[1].subject = <<>>
    THEN [exc |-> "", profile |-> None, db |-> "", opened |-> 0, closed |-> 0]
    ELSE CASE db = "get_db_raises" ->
                [exc |-> "OperationalError", profile |-> None, db |-> db,
                 opened |-> 0, closed |-> 0]
           [] db = "query_raises" ->
                [exc |-> "OperationalError", profile |-> None, db |-> db,
                 opened |-> 1, closed |-> 1]
           [] db = "close_raises" ->
                [exc |-> "OperationalError", profile |-> None, db |-> db,
                 opened |-> 1, closed |-> 1]
           [] OTHER ->
                [exc |-> "", db |-> db, opened |-> 1, closed |-> 1,
                 profile |-> get_profile_by_user_id(rows, access_token[1].subject)]

twitter_data_of(profile) ==
    IF profile # None
    THEN [handle |-> OrDefault(profile[1].twitter_handle, DefaultHandle),
          name |-> OrDefault(profile[1].display_name, DefaultName),
          avatar |-> OrDefault(profile[1].avatar_url, DefaultAvatar)]
    ELSE DefaultIdentity

resolve_twitter_data_no_except(access_token, rows, db) ==
    LET l == lookup_try(access_token, rows, db)
    IN  [exc |-> l.exc, data |-> twitter_data_of(l.profile), db |-> l.db,
         opened |-> l.opened, closed |-> l.closed]

\* the whole try/except around the lookup: any exception gives the default
resolve_twitter_data(access_token, rows, db) ==
    LET l == lookup_try(access_token, rows, db)
    IN  IF l.exc # ""
        THEN [exc |-> "", data |-> DefaultIdentity, db |-> l.db,
              opened |-> l.opened, closed |-> l.closed]
        ELSE [exc |-> "", data |-> twitter_data_of(l.profile), db |-> l.db,
              opened |-> l.opened, closed |-> l.closed]

WidgetHtml == <<"<html>gradient tweet widget</html>">>

\* handle_create_gradient_tweet; widget_ok says whether the widget file reads.
\* The timestamp and the widget URL of the structured content are left out.
handle_create_gradient_tweet(arguments, access_token, rows, db, widget_ok) ==
    IF arguments = None THEN Outcome("AttributeError", None, "", 0, 0)
    ELSE LET args == arguments[1]
             tweet_content == dict_get(args, "tweetContent", JStr(<<>>))
             gi == dict_get(args, "gradientIndex", JInt(0))
         IN  IF gi.t # "int" THEN Outcome("TypeError", None, "", 0, 0)
             ELSE LET gradient_index == clamp_index(gi.n)
                      gradient == py_index(GRADIENTS, gradient_index)
                  IN  IF gradient = None THEN Outcome("IndexError", None, "", 0, 0)
                      ELSE LET td == resolve_twitter_data(access_token, rows, db)
                               text_response == <<"Created gradient tweet with ">>
                                                \o gradient[1].name \o <<" gradient!">>
                               structured_content ==
                                   [tweetContent |-> tweet_content,
                                    gradientIndex |-> gradient_index,
                                    gradientName |-> gradient[1].name,
                                    profile |-> td.data,
                                    widget_html |-> IF widget_ok THEN Some(WidgetHtml)
                                                    ELSE None]
                           IN  IF td.exc # "" THEN Outcome(td.exc, None, td.db, td.opened, td.closed)
                               ELSE Outcome("", Some(CallToolResult(FALSE,
                                        <<text_response>>
                                        \o (IF widget_ok THEN <<WidgetHtml>> ELSE <<>>),
                                        Some(structured_content))),
                                        td.db, td.opened, td.closed)

\* _call_tool: dispatch on request.params.name
call_tool(name, arguments, access_token, rows, db, widget_ok) ==
    IF name = <<"get-my-profile">> THEN handle_get_my_profile(access_token)
    ELSE IF name = <<"create-gradient-tweet">>
    THEN handle_create_gradient_tweet(arguments, access_token, rows, db, widget_ok)
    ELSE Outcome("", Some(CallToolResult(TRUE, <<<<"Unknown tool: ">> \o name>>, None)), "", 0, 0)

\* --------------------------------------------------------- save-profile
SessionTokens == {JNull, JStr(<<>>), JStr(<<"S1">>)}

\* request bodies: not JSON, JSON that is no object, or a JSON object
Bodies ==
    {[kind |-> "malformed", data |-> [k \in {} |-> JNull]],
     [kind |-> "array", data |-> [k \in {} |-> JNull]],
     [kind |-> "object", data |-> [k \in {} |-> JNull]]}
    \cup {[kind |-> "object", data |-> [k \in {"session_token"} |-> v]] :
            v \in SessionTokens}

\* outcomes of `await verify_stytch_session_token(session_token)`
SessionOutcomes ==
    {[kind |-> "raise", exc |-> e, user_data |-> None] :
        e \in {"InvalidSession", "NetworkError"}}
    \cup {[kind |-> "ok", exc |-> "", user_data |-> Some(ud)] : ud \in UserDatas}

JSONResponse(status, success, message, profile) ==
    [status |-> status, success |-> success, message |-> message, profile |-> profile]

save_profile_parse_no_token_check(body) ==
    IF body.kind = "malformed"
    THEN Some(JSONResponse(500, FALSE, <<"Error: ", "JSONDecodeError">>, None))
    ELSE IF body.kind # "object"
    THEN Some(JSONResponse(500, FALSE, <<"Error: ", "AttributeError">>, None))
    ELSE None

\* save_profile up to its call of verify_stytch_session_token: it answers, or
\* goes on with the session token
save_profile_parse(body) ==
    IF body.kind = "malformed"
    THEN Some(JSONResponse(500, FALSE, <<"Error: ", "JSONDecodeError">>, None))
    ELSE IF body.kind # "object"
    THEN Some(JSONResponse(500, FALSE, <<"Error: ", "AttributeError">>, None))
    ELSE IF ~Truthy(dict_get(body.data, "session_token", JNull))
    THEN Some(JSONResponse(400, FALSE, <<"session_token required">>, None))
    ELSE None

store_profile_insert(rows, tp) == Append(rows, NewRow(rows, tp))

store_profile_keep_first(rows, tp) ==
    IF RowsOf(rows, tp.user_id) = {} THEN Append(rows, NewRow(rows, tp)) ELSE rows

\* `profile = get_or_create_profile(db, twitter_profile)`
store_profile(rows, tp) == get_or_create_profile(rows, tp)

Saved(response, rows, db, opened, closed) ==
    [response |-> response, rows |-> rows, db |-> db, opened |-> opened, closed |-> closed]

\* save_profile from the answer of verify_stytch_session_token to its return
save_profile_finish(xout, rows, db) ==
    IF xout.kind = "raise"
    THEN Saved(JSONResponse(500, FALSE, <<"Error: ", xout.exc>>, None), rows, "", 0, 0)
    ELSE LET twitter_profile == extract_twitter_profile(xout.user_data[1])
         IN  IF twitter_profile = None
             THEN Saved(JSONResponse(400, FALSE, <<"No Twitter profile found">>, None),
                        rows, "", 0, 0)
             ELSE LET rows2 == store_profile(rows, twitter_profile[1])
                      profile == get_profile_by_user_id(rows2, twitter_profile[1].user_id)
                  IN  CASE db = "get_db_raises" ->
                             Saved(JSONResponse(500, FALSE,
                                     <<"Error: ", "OperationalError">>, None), rows, db, 0, 0)
                        [] db = "query_raises" ->
                             Saved(JSONResponse(500, FALSE,
                                     <<"Error: ", "OperationalError">>, None), rows, db, 1, 1)
                        [] db = "query_none" ->
                             Saved(JSONResponse(500, FALSE,
                                     <<"Failed to save profile">>, None), rows, db, 1, 1)
                        [] db = "close_raises" ->
                             Saved(JSONResponse(500, FALSE,
                                     <<"Error: ", "OperationalError">>, None), rows2, db, 1, 1)
                        [] OTHER ->
                             Saved(JSONResponse(200, TRUE, <<"Profile saved successfully">>,
                                     Some([twitter_handle |-> profile[1].twitter_handle,
                                           display_name |-> profile[1].display_name])),
                                   rows2, db, 1, 1)

NoBody == [kind |-> "none", data |-> [k \in {} |-> JNull]]
NoExchange == [kind |-> "none", exc |-> "", user_data |-> None]

\* ------------------------------------------------------------------ state
VARIABLES
    mpc,        \* where the current MCP request is: idle, authed or called
    auth,       \* what verify_token did for the current MCP request
    call,       \* the latest call-tool request and what _call_tool did
    profiles,   \* the rows of the Profile table
    req         \* the save-profile requests in flight

vars == <<mpc, auth, call, profiles, req>>

SaveReqs == 1..NumSave

\* a save-profile request: where it is, its body, what the session exchange
\* and the database did for it, its response, the connections it opened and closed
IdleReq == [pc |-> "idle", body |-> NoBody, xout |-> NoExchange, db |-> "",
            response |-> None, opened |-> 0, closed |-> 0]

\* get_access_token(): the principal verify_token returned, if any
get_access_token == IF auth.exc = "" THEN auth.value ELSE None

\* an MCP request comes in with a bearer token: the auth middleware runs
\* verify_token on it
Authenticate(token, out) ==
    /\ mpc = "idle"
    /\ mpc' = "authed"
    /\ auth' = verify_token(token, out)
    /\ UNCHANGED <<call, profiles, req>>

\* an MCP request that carries no bearer token
Anonymous ==
    /\ mpc = "idle"
    /\ mpc' = "authed"
    /\ auth' = Return(None)
    /\ UNCHANGED <<call, profiles, req>>

CallTool_creating_profile(name, arguments, db, widget_ok) ==
    /\ mpc = "authed"
    /\ mpc' = "called"
    /\ LET out == call_tool(name, arguments, get_access_token, profiles, db, widget_ok)
       IN  call' = Some([name |-> name, arguments |-> arguments,
                         principal |-> get_access_token, out |-> out])
    /\ profiles' = IF name = <<"create-gradient-tweet">> /\ get_access_token # None
                   THEN store_profile_keep_first(profiles,
                            [user_id |-> get_access_token[1].subject,
                             twitter_handle |-> JNull, display_name |-> JNull,
                             avatar_url |-> JNull])
                   ELSE profiles
    /\ UNCHANGED <<auth, req>>

\* the request is a call-tool request: _call_tool handles it
CallTool(name, arguments, db, widget_ok) ==
    /\ mpc = "authed"
    /\ mpc' = "called"
    /\ LET out == call_tool(name, arguments, get_access_token, profiles, db, widget_ok)
       IN  call' = Some([name |-> name, arguments |-> arguments,
                         principal |-> get_access_token, out |-> out])
    /\ UNCHANGED <<auth, profiles, req>>

\* _list_tools: the descriptors of the two tools
list_tools ==
    <<[name |-> <<"get-my-profile">>, readOnlyHint |-> TRUE, destructiveHint |-> FALSE],
      [name |-> <<"create-gradient-tweet">>, readOnlyHint |-> TRUE,
       destructiveHint |-> FALSE]>>

\* the request is a list-tools request: _list_tools handles it
ListTools ==
    /\ mpc = "authed"
    /\ mpc' = "called"
    /\ call' = Some([name |-> <<"tools/list">>, arguments |-> None,
                     principal |-> get_access_token,
                     out |-> Outcome("", Some(list_tools), "", 0, 0)])
    /\ UNCHANGED <<auth, profiles, req>>

\* the response is sent and the request's context is dropped
Respond ==
    /\ mpc \in {"authed", "called"}
    /\ mpc' = "idle"
    /\ auth' = Return(None)
    /\ call' = None
    /\ UNCHANGED <<profiles, req>>

\* a save-profile request arrives: `await request.body()`, json.loads and the
\* session_token check, up to the call of verify_stytch_session_token
SaveReceive(r, body) ==
    /\ req[r].pc \in {"idle", "done"}
    /\ LET early == save_profile_parse(body)
       IN  req' = [req EXCEPT ![r] =
                     IF early # None
                     THEN [IdleReq EXCEPT !.pc = "done", !.body = body, !.response = early]
                     ELSE [IdleReq EXCEPT !.pc = "exchanging", !.body = body]]
    /\ UNCHANGED <<mpc, auth, call, profiles>>

\* verify_stytch_session_token answers and save_profile runs to its return
\* without suspending: extract_twitter_profile, get_db, get_or_create_profile,
\* db.close and the response
SaveFinish(r, xout, db) ==
    /\ req[r].pc = "exchanging"
    /\ LET s == save_profile_finish(xout, profiles, db)
       IN  /\ Len(s.rows) <= MaxRows
           /\ req' = [req EXCEPT ![r] = [@ EXCEPT !.pc = "done", !.xout = xout,
                                           !.db = s.db,
                                           !.response = Some(s.response),
                                           !.opened = s.opened, !.closed = s.closed]]
           /\ profiles' = s.rows
    /\ UNCHANGED <<mpc, auth, call>>

\* --------------------------------------------------------- specifications
NoAuth == Return(None)

\* the MCP side: bearer authentication and tool calls over a Profile table
\* that earlier save-profile requests have filled
StoreStates ==
    {StoreAfter(uds) : uds \in {<<>>, <<UdAlice>>, <<UdBlank>>,
                                <<UdAlice, UdBob>>, <<UdBob, UdBlank>>}}

InitMcp ==
    /\ mpc = "idle"
    /\ auth = NoAuth
    /\ call = None
    /\ profiles \in StoreStates
    /\ req = [r \in SaveReqs |-> IdleReq]

NextMcp ==
    \/ \E token \in Tokens, out \in JwtOutcomes : Authenticate(token, out)
    \/ Anonymous
    \/ \E name \in ToolNames, arguments \in Arguments,
          db \in LookupOutcomes, widget_ok \in BOOLEAN :
            CallTool(name, arguments, db, widget_ok)
    \/ Respond

SpecMcp == InitMcp /\ [][NextMcp]_vars

\* the REST side: concurrent save-profile requests on an empty Profile table
InitSave ==
    /\ mpc = "idle"
    /\ auth = NoAuth
    /\ call = None
    /\ profiles = <<>>
    /\ req = [r \in SaveReqs |-> IdleReq]

NextSave ==
    \/ \E r \in SaveReqs, body \in Bodies : SaveReceive(r, body)
    \/ \E r \in SaveReqs, xout \in SessionOutcomes, db \in DbOutcomes :
            SaveFinish(r, xout, db)

SpecSave == InitSave /\ [][NextSave]_vars

\* the whole server: MCP requests and save-profile requests side by side,
\* on a few cases of each input
JwtCases ==
    {[kind |-> "raise", exc |-> "Expired", claims |-> <<>>],
     [kind |-> "claims", exc |-> "", claims |-> [k \in {"sub"} |-> JStr(U1)]],
     [kind |-> "claims", exc |-> "", claims |-> [k \in {"sub"} |-> JStr(U2)]]}

ArgumentCases ==
    {None,
     Some([k \in {"tweetContent", "gradientIndex"} |->
              IF k = "tweetContent" THEN JStr(<<"hi">>) ELSE JInt(3)])}

BodyCases ==
    {[kind |-> "object", data |-> [k \in {} |-> JNull]],
     [kind |-> "object", data |-> [k \in {"session_token"} |-> JStr(<<"S1">>)]]}

SessionCases ==
    {[kind |-> "raise", exc |-> "InvalidSession", user_data |-> None]}
    \cup {[kind |-> "ok", exc |-> "", user_data |-> Some(ud)] :
            ud \in {UdAlice, UdBlank, UdGoogle}}

Init == InitSave

Next ==
    \/ \E token \in Tokens, out \in JwtCases : Authenticate(token, out)
    \/ Anonymous
    \/ ListTools
    \/ \E name \in ToolNames, arguments \in ArgumentCases, db \in LookupOutcomes :
            CallTool(name, arguments, db, TRUE)
    \/ Respond
    \/ \E r \in SaveReqs, body \in BodyCases : SaveReceive(r, body)
    \/ \E r \in SaveReqs, xout \in SessionCases, db \in DbOutcomes :
            SaveFinish(r, xout, db)

Spec == Init /\ [][Next]_vars

\* ------------------------------------------------------------- properties
Called(name) == mpc = "called" /\ call # None /\ call[1].name = name

Returned(c) == c.out.exc = "" /\ c.out.value # None

\* C1: verify_token returns None or a principal whose subject is not empty;
\* it never returns a principal with a missing or empty subject.
VerifiedSubjectNonEmpty ==
    auth.value # None => auth.value[1].subject # <<>>

PrincipalVerified ==
    /\ mpc = "authed"
    /\ auth.value # None
    /\ auth.value[1].subject = U1
    /\ auth.value[1].claims["sub"] = JStr(U1)

\* C10: whatever verify_jwt_token does (valid claims, a raised error, claims
\* of an unexpected shape), verify_token returns a value and raises nothing.
VerifyTokenNeverRaises == auth.exc = ""

ShapeErrorSwallowed ==
    /\ mpc = "authed"
    /\ auth.logged = <<"JWT verification failed: ", "AttributeError">>
    /\ auth.exc = ""
    /\ auth.value = None

\* C4: every call-tool request, whatever its tool name and arguments, makes
\* _call_tool return a CallToolResult; no exception escapes to the transport.
CallToolAlwaysReturns ==
    mpc = "called" => Returned(call[1])

IntegerOrAbsentIndex(c) ==
    /\ c.arguments # None
    /\ dict_get(c.arguments[1], "gradientIndex", JInt(0)).t = "int"

IndexArgument(c) == dict_get(c.arguments[1], "gradientIndex", JInt(0)).n

InPalette(n) == 0 <= n /\ n < PaletteSize

\* C5: a create-gradient-tweet call whose gradientIndex is an integer or is
\* absent does not error; it reports the input index when that is within
\* [0, PaletteSize) and index 0 otherwise, with the name of that palette entry.
GradientIndexClamped ==
    Called(<<"create-gradient-tweet">>) /\ IntegerOrAbsentIndex(call[1]) =>
        /\ Returned(call[1])
        /\ ~call[1].out.value[1].isError
        /\ LET sc == call[1].out.value[1].structuredContent[1]
               n == IndexArgument(call[1])
           IN  /\ InPalette(sc.gradientIndex)
               /\ sc.gradientIndex = IF InPalette(n) THEN n ELSE 0
               /\ sc.gradientName = GRADIENTS[sc.gradientIndex + 1].name

NegativeIndexClamped ==
    /\ Called(<<"create-gradient-tweet">>)
    /\ call[1].arguments # None
    /\ "gradientIndex" \in DOMAIN call[1].arguments[1]
    /\ call[1].arguments[1]["gradientIndex"] = JInt(-1)
    /\ Returned(call[1])
    /\ call[1].out.value[1].structuredContent[1].gradientIndex = 0
    /\ call[1].out.value[1].structuredContent[1].gradientName = GRADIENTS[1].name

\* the cases of the default-identity fallback: no principal, no stored
\* Profile for the principal's subject, or a failing Profile Store
FallbackCase(c) ==
    \/ c.principal = None
    \/ c.out.db \in {"get_db_raises", "query_raises", "close_raises"}
    \/ c.principal # None /\ RowsOf(profiles, c.principal[1].subject) = {}

\* C6: a create-gradient-tweet call that gets as far as the profile lookup
\* and has no principal, no stored Profile for the principal's subject, or a
\* Profile Store that raises, returns a non-error result whose profile is the
\* default identity.
FallbackIsDefaultIdentity ==
    Called(<<"create-gradient-tweet">>) /\ IntegerOrAbsentIndex(call[1])
    /\ FallbackCase(call[1]) =>
        /\ Returned(call[1])
        /\ ~call[1].out.value[1].isError
        /\ call[1].out.value[1].structuredContent[1].profile =
               [handle |-> <<"twitter_user">>, name |-> <<"Twitter User">>,
                avatar |-> DefaultAvatar]

StoreErrorFellBack ==
    /\ Called(<<"create-gradient-tweet">>)
    /\ call[1].principal # None
    /\ RowsOf(profiles, call[1].principal[1].subject) # {}
    /\ call[1].out.db = "query_raises"
    /\ Returned(call[1])
    /\ call[1].out.value[1].structuredContent[1].profile.handle = <<"twitter_user">>

\* C7: get-my-profile without a principal returns (does not raise) a result
\* with isError set, the authentication-required text and no structuredContent.
UnauthenticatedProfileIsError ==
    Called(<<"get-my-profile">>) /\ call[1].principal = None =>
        /\ Returned(call[1])
        /\ call[1].out.value[1].isError
        /\ call[1].out.value[1].content =
               <<<<"Authentication required. Please connect your account first.">>>>
        /\ call[1].out.value[1].structuredContent = None

UnauthenticatedProfileCalled ==
    /\ Called(<<"get-my-profile">>)
    /\ call[1].principal = None
    /\ Returned(call[1])
    /\ call[1].out.value[1].isError

\* str follows the label in the text
After(text, label, str) ==
    \E i \in 1..Len(text) :
        /\ text[i] = label
        /\ i + Len(str) <= Len(text)
        /\ SubSeq(text, i + 1, i + Len(str)) = str

Mentions(text, str) ==
    \E i \in 0..(Len(text) - Len(str)) : SubSeq(text, i + 1, i + Len(str)) = str

SummaryOf(text, tok) ==
    /\ After(text, "- User ID: ", tok.subject)
    /\ After(text, "- Client ID: ", tok.client_id)
    /\ IF tok.scopes = <<>> THEN After(text, "- Scopes: ", <<"none">>)
       ELSE /\ After(text, "- Scopes: ", tok.scopes[1])
            /\ \A k \in 1..Len(tok.scopes) : Mentions(text, tok.scopes[k])
    /\ After(text, "- JWT Claims: ", <<ToString(Cardinality(DOMAIN tok.claims))>>)

\* C9 as stated: with a principal, get-my-profile returns a non-error result
\* whose structured output is the subject, the client id, the scopes and the
\* number of claims, with a text summary of the same four items.
ProfileReportsClaimCount ==
    Called(<<"get-my-profile">>) /\ call[1].principal # None =>
        LET tok == call[1].principal[1]
        IN  /\ Returned(call[1])
            /\ ~call[1].out.value[1].isError
            /\ call[1].out.value[1].structuredContent =
                   Some([user_id |-> tok.subject, client_id |-> tok.client_id,
                         scopes |-> tok.scopes,
                         claim_count |-> Cardinality(DOMAIN tok.claims)])
            /\ SummaryOf(call[1].out.value[1].content[1], tok)

\* C9 amended: with a principal, get-my-profile returns a non-error result
\* whose structured output is the subject, the client id, the scopes and the
\* full claims mapping; the number of claims appears only in the text summary,
\* with the subject, the client id and the scopes (or "none").
ProfileReportsClaims ==
    Called(<<"get-my-profile">>) /\ call[1].principal # None =>
        LET tok == call[1].principal[1]
        IN  /\ Returned(call[1])
            /\ ~call[1].out.value[1].isError
            /\ call[1].out.value[1].structuredContent =
                   Some([user_id |-> tok.subject, client_id |-> tok.client_id,
                         scopes |-> tok.scopes, jwt_claims |-> tok.claims])
            /\ Len(call[1].out.value[1].content) = 1
            /\ SummaryOf(call[1].out.value[1].content[1], tok)

ProfileOfScopedPrincipal ==
    /\ Called(<<"get-my-profile">>)
    /\ call[1].principal # None
    /\ call[1].principal[1].scopes = <<<<"openid">>, <<"profile">>>>
    /\ Cardinality(DOMAIN call[1].principal[1].claims) = 3
    /\ Returned(call[1])
    /\ call[1].out.value[1].structuredContent # None

UserIds == {ud.user_id : ud \in UserDatas}

\* C2: under any interleaving of concurrent save-profile requests the Profile
\* table holds at most one row per userId.
OneProfilePerUser ==
    \A u \in UserIds : Cardinality(RowsOf(profiles, u)) <= 1

Succeeded(q) == q.pc = "done" /\ q.response # None /\ q.response[1].status = 200

TwoSavesOneRow ==
    /\ Succeeded(req[1]) /\ req[1].xout.user_data = Some(UdAlice)
    /\ Succeeded(req[2]) /\ req[2].xout.user_data = Some(UdBlank)
    /\ Cardinality(RowsOf(profiles, U1)) = 1

\* the external profile a request's session exchange led to
ExchangedProfile(q) == extract_twitter_profile(q.xout.user_data[1])[1]

\* a step in which request r finishes
Finishes(r) == req'[r] # req[r] /\ req'[r].pc = "done"

\* C3: a save-profile call that succeeds for an external profile of user U
\* leaves exactly one Profile with userId U, carrying that call's handle,
\* display name and avatar, also when an earlier call stored other values.
SaveLeavesOneRowWithItsFields ==
    [][\A r \in SaveReqs :
          Finishes(r) /\ Succeeded(req'[r]) =>
              LET tp == ExchangedProfile(req'[r])
              IN  /\ Cardinality(RowsOf(profiles', tp.user_id)) = 1
                  /\ \A i \in RowsOf(profiles', tp.user_id) :
                        /\ profiles'[i].twitter_handle = tp.twitter_handle
                        /\ profiles'[i].display_name = tp.display_name
                        /\ profiles'[i].avatar_url = tp.avatar_url]_vars

SavedTwiceWithSameToken ==
    /\ \A r \in {1, 2} :
          /\ Succeeded(req[r])
          /\ req[r].body.data = [k \in {"session_token"} |-> JStr(<<"S1">>)]
          /\ req[r].xout.user_data = Some(UdAlice)
    /\ Cardinality(RowsOf(profiles, U1)) = 1
    /\ \A i \in RowsOf(profiles, U1) :
          /\ profiles[i].user_id = <<"u1">>
          /\ profiles[i].twitter_handle = JStr(<<"alice">>)

TokenMissing(q) == ~Truthy(dict_get(q.body.data, "session_token", JNull))

NoLinkedIdentity(q) ==
    q.xout.kind = "ok" /\ extract_twitter_profile(q.xout.user_data[1]) = None

StoreFailed(q) ==
    q.db \in {"get_db_raises", "query_raises", "query_none", "close_raises"}

SuccessWithProfile(q) ==
    /\ q.response[1].status = 200
    /\ q.response[1].success
    /\ q.response[1].profile # None

\* C8 as stated: the answer is 400 exactly when the session_token is missing
\* or empty or the user data has no linked Twitter identity, 500 when the
\* Profile Store fails, and success with the profile otherwise; the two 400
\* cases do not write the Profile Store.
SaveProfileStatusAsStated ==
    [][\A r \in SaveReqs :
          Finishes(r) =>
              LET q == req'[r]
              IN  /\ q.response[1].status = 400 <=> (TokenMissing(q) \/ NoLinkedIdentity(q))
                  /\ StoreFailed(q) => q.response[1].status = 500
                  /\ ~(TokenMissing(q) \/ NoLinkedIdentity(q) \/ StoreFailed(q))
                        => SuccessWithProfile(q)
                  /\ q.response[1].status = 400 => profiles' = profiles]_vars

\* C8 amended: the answer is 400 exactly when the body is a JSON object whose
\* session_token is missing or empty, or the session exchange succeeded and
\* the user data has no linked Twitter identity; it is 500 when the body is
\* not a JSON object, when the session exchange raises, or when the Profile
\* Store fails; it is success with the stored handle and display name
\* otherwise; the two 400 cases do not write the Profile Store.
SaveProfileStatus ==
    [][\A r \in SaveReqs :
          Finishes(r) =>
              LET q == req'[r]
                  bad_body == q.body.kind # "object"
                  no_token == q.body.kind = "object" /\ TokenMissing(q)
                  exchange_raised == q.xout.kind = "raise"
              IN  /\ q.response # None
                  /\ q.response[1].status \in {200, 400, 500}
                  /\ q.response[1].status = 400 <=> (no_token \/ NoLinkedIdentity(q))
                  /\ q.response[1].status = 500 <=>
                        (bad_body \/ exchange_raised \/ StoreFailed(q))
                  /\ q.response[1].status = 200 =>
                        /\ SuccessWithProfile(q)
                        /\ \E i \in RowsOf(profiles', ExchangedProfile(q).user_id) :
                              q.response[1].profile[1] =
                                 [twitter_handle |-> profiles'[i].twitter_handle,
                                  display_name |-> profiles'[i].display_name]
                  /\ q.response[1].status # 200 => ~q.response[1].success
                  /\ q.response[1].status = 400 => profiles' = profiles]_vars

SaveAnsweredEachStatus ==
    /\ req[1].pc = "done" /\ req[1].response[1].status = 400
    /\ NoLinkedIdentity(req[1])
    /\ req[2].pc = "done" /\ req[2].response[1].status = 500
    /\ req[2].db = "query_none"
    /\ profiles # <<>>

\* a database call of the request got a connection from get_db()
GotConnection(db) == db \in {"ok", "query_raises", "query_none", "close_raises"}

\* C11: once a create-gradient-tweet call or a save-profile request has
\* finished, on whatever exit path, every connection it got from get_db() has
\* been closed: it got one exactly when get_db() worked for it, and the number
\* it opened and did not close is zero.
ConnectionsClosed ==
    /\ Called(<<"create-gradient-tweet">>) =>
          /\ call[1].out.opened = (IF GotConnection(call[1].out.db) THEN 1 ELSE 0)
          /\ call[1].out.opened - call[1].out.closed = 0
    /\ \A r \in SaveReqs :
          req[r].pc = "done" =>
              /\ req[r].opened = (IF GotConnection(req[r].db) THEN 1 ELSE 0)
              /\ req[r].opened - req[r].closed = 0

ClosedAfterFailures ==
    /\ Called(<<"create-gradient-tweet">>)
    /\ call[1].out.db = "query_raises"
    /\ call[1].out.opened = 1 /\ call[1].out.closed = 1
    /\ req[1].pc = "done"
    /\ req[1].db = "query_none"
    /\ req[1].opened = 1 /\ req[1].closed = 1

\* the stored column, or the default when it is null or empty
StoredOr(v, default) == IF v.t = "str" /\ Len(v.s) > 0 THEN v.s ELSE default

\* a step in which _call_tool handles a create-gradient-tweet call that gets
\* as far as the profile lookup
GradientTweetStep ==
    /\ mpc = "authed" /\ mpc' = "called"
    /\ call' # None
    /\ call'[1].name = <<"create-gradient-tweet">>
    /\ IntegerOrAbsentIndex(call'[1])

\* C12: once a save-profile request has stored a Profile for user U, a
\* create-gradient-tweet call whose principal has subject U and whose lookup
\* meets no store error returns the profile built from the row stored for U:
\* its twitterHandle, displayName and avatarUrl, each replaced by its default
\* only when the stored value is null or empty.
StoredProfilePersonalizes ==
    [][GradientTweetStep /\ call'[1].principal # None /\ call'[1].out.db = "ok"
       /\ RowsOf(profiles, call'[1].principal[1].subject) # {} =>
          /\ Returned(call'[1])
          /\ ~call'[1].out.value[1].isError
          /\ Cardinality(RowsOf(profiles, call'[1].principal[1].subject)) = 1
          /\ \A i \in RowsOf(profiles, call'[1].principal[1].subject) :
                call'[1].out.value[1].structuredContent[1].profile =
                    [handle |-> StoredOr(profiles[i].twitter_handle, <<"twitter_user">>),
                     name |-> StoredOr(profiles[i].display_name, <<"Twitter User">>),
                     avatar |-> StoredOr(profiles[i].avatar_url, DefaultAvatar)]]_vars

SavedProfileShown ==
    /\ Called(<<"create-gradient-tweet">>)
    /\ call[1].principal # None
    /\ call[1].principal[1].subject = U1
    /\ call[1].out.db = "ok"
    /\ \E r \in SaveReqs : Succeeded(req[r]) /\ req[r].xout.user_data = Some(UdAlice)
    /\ \E i \in RowsOf(profiles, U1) : profiles[i].twitter_handle = JStr(<<"alice">>)
    /\ Returned(call[1])
    /\ call[1].out.value[1].structuredContent[1].profile =
          [handle |-> <<"alice">>, name |-> <<"Alice">>, avatar |-> <<"a.png">>]

\* a step in which a save-profile request gets as far as get_or_create_profile
ReachesGetOrCreate(r) ==
    /\ req[r].pc = "exchanging" /\ req'[r].pc = "done"
    /\ req'[r].xout.kind = "ok"
    /\ extract_twitter_profile(req'[r].xout.user_data[1]) # None
    /\ req'[r].db \in {"ok", "close_raises"}

\* C13: token verification and tool calls (list-tools, get-my-profile,
\* create-gradient-tweet, unknown tools) leave the stored Profile rows as they
\* are; the rows change only in a step of a save-profile request that reaches
\* get_or_create_profile, and no step removes a row or gives it to another user.
ToolsLeaveProfilesAlone ==
    [][/\ (mpc' # mpc \/ auth' # auth \/ call' # call) => profiles' = profiles
       /\ profiles' # profiles => \E r \in SaveReqs : ReachesGetOrCreate(r)
       /\ Len(profiles') >= Len(profiles)
       /\ \A i \in 1..Len(profiles) :
             /\ profiles'[i].id = profiles[i].id
             /\ profiles'[i].user_id = profiles[i].user_id]_vars

LookupMissCreatedNothing ==
    /\ Called(<<"create-gradient-tweet">>)
    /\ call[1].principal # None
    /\ call[1].principal[1].subject = U2
    /\ call[1].out.db = "ok"
    /\ Returned(call[1])
    /\ Len(profiles) = 1
    /\ profiles[1].user_id = U1
====
